---- MODULE Spec2Model ----
(***************************************************************************)
(* A model of realCertControl (pkg/controller/cert_control.go) and of the  *)
(* key/CSR generator (pkg/util/crypto/certs.go) of tidb-operator.          *)
(*                                                                         *)
(* Callers invoke Create; every call Create makes on the control plane     *)
(* (secrets, certificate signing requests, watch) is one atomic step.      *)
(* The control plane, the signing authority, another approver and the      *)
(* server side of the watch are the environment.                           *)
(***************************************************************************)
EXTENDS Integers, Sequences, FiniteSets, TLC

\* ------------------------------------------------------------- bounds
\* Create invocations a caller that runs alone makes in one run.
MaxInvocations == 2
\* Control-plane / generator failures injected in one run.
MaxFaults == 1

\* ------------------------------------------------------------- inputs
Callers == {"c1", "c2"}
Namespaces == {"db", "kv"}
Instances == {"pd"}
Suffixes == {"", "peer"}
Components == {"pd"}

Identities ==
    [ns : Namespaces, instance : Instances, suffix : Suffixes, component : Components]

\* The descriptor of a caller that takes no part in the run.
NoIdentity == [ns |-> "", instance |-> "", suffix |-> "", component |-> ""]

\* label.New()[label.ManagedByLabelKey]
ManagedBy == "tidb-operator"

\* The roots ReadCACerts yields when it can be read, and the authority the
\* signer of the cluster signs with.
TrustedRoots == {"clusterCA"}
ClusterSigner == "clusterCA"

\* ------------------------------------------------------------- names
\* Create, lines 59-64: the name of the CSR resource, which is also the name
\* of the secret CheckSecret is asked about.
CsrName(instance, suffix) ==
    IF suffix = "" THEN instance ELSE instance \o "-" \o suffix

\* SaveToSecret, line 248: the name of the secret that is written.
SecretName(instance, suffix) ==
    instance \o "-" \o suffix

CsrNames == {CsrName(i.instance, i.suffix) : i \in Identities}
SecretNames == CsrNames \cup {SecretName(i.instance, i.suffix) : i \in Identities}
SecretKeys == Namespaces \X SecretNames

\* ------------------------------------------------------------- values
\* Certificate bytes: kind "none" is nil, "garbage" does not decode as PEM,
\* "x509" is a PEM certificate issued by issuer for the public key pub.
NoCert == [kind |-> "none", issuer |-> "", pub |-> 0]
GarbageCert == [kind |-> "garbage", issuer |-> "", pub |-> 0]
X509(issuer, pub) == [kind |-> "x509", issuer |-> issuer, pub |-> pub]

NoLabels == [ns |-> "", managedBy |-> "", instance |-> "", component |-> ""]

\* A CSR resource of the control plane; uid 0 is "no such resource".
NoCSR == [uid |-> 0, labels |-> NoLabels, request |-> 0, conds |-> <<>>, cert |-> NoCert]

\* A secret of the control plane.
NoSecret == [exists |-> FALSE, cert |-> NoCert, key |-> 0, labels |-> NoLabels]

\* The CSR object a Create invocation holds (csr in Create).
NoLocalCSR == [uid |-> 0, conds |-> <<>>]

\* A watch channel and an event on it.
NoWatch == [open |-> FALSE, q |-> <<>>]
NoEvent == [type |-> "", uid |-> 0, conds |-> <<>>, cert |-> NoCert]
Event(type, r) == [type |-> type, uid |-> r.uid, conds |-> r.conds, cert |-> r.cert]

\* What Create returned: ok, the step it returned at, and the resource name
\* its error message carries ("" when the message names none).
NoRet == [ok |-> FALSE, at |-> "", names |-> ""]
Ok(at) == [ok |-> TRUE, at |-> at, names |-> ""]
Err(at, names) == [ok |-> FALSE, at |-> at, names |-> names]

NoPrev == [ran |-> FALSE, ret |-> NoRet, key |-> 0, uid |-> 0]

VARIABLES
    pc,         \* pc[p]: where caller p is in Create
    id,         \* id[p]: the identity descriptor caller p passes to Create
    inv,        \* inv[p]: the number of Create invocations p has started
    key,        \* key[p]: the private key NewCSR returned (0: none)
    rawCSR,     \* rawCSR[p]: the public key the request of NewCSR is for
    csr,        \* csr[p]: the CSR object sendCSR returned
    updatedCSR, \* updatedCSR[p]: the watch event Create persists from
    ch,         \* ch[p]: the watch channel of p
    ticked,     \* ticked[p]: the timer of line 90 has fired
    ret,        \* ret[p]: what the last finished invocation returned
    calls,      \* calls[p]: the control-plane calls of the current invocation
    prev,       \* prev[p]: the invocation before the current one
    csrs,       \* the CSR resources of the control plane, by name
    secrets,    \* the secrets of the control plane, by <<namespace, name>>
    faults      \* failures injected so far

vars == <<pc, id, inv, key, rawCSR, csr, updatedCSR, ch, ticked, ret, calls, prev,
          csrs, secrets, faults>>


\* ------------------------------------------------------------- helpers
FaultChoices == IF faults < MaxFaults THEN {FALSE, TRUE} ELSE {FALSE}

\* A caller that runs alone invokes Create up to MaxInvocations times, one
\* invocation after the other; callers that run concurrently invoke it once.
InvocationLimit == IF id["c2"] = NoIdentity THEN MaxInvocations ELSE 1

NameOf(p) == CsrName(id[p].instance, id[p].suffix)

CallerIndex(p) == IF p = "c1" THEN 0 ELSE 1

\* What rand.Reader yields to the invocation p is in: a key no other
\* invocation is given (1 is the key of a secret made before the run).
Rand(p) == Cardinality(Callers) * inv[p] + CallerIndex(p)

\* The UID the control plane gives a new resource: no two resources share
\* one (a request is submitted at most once; 1 is the UID of a resource
\* made before the run).
NewUID(request) == request + 10

\* The watch of line 97 selects on metadata.name: an event goes to every
\* open channel whose caller still reads it and watches that name.
Notify(name, ev) ==
    [q \in Callers |->
        IF ch[q].open /\ pc[q] = "wait" /\ NameOf(q) = name
        THEN [ch[q] EXCEPT !.q = Append(@, ev)]
        ELSE ch[q]]

Call(op, name, uid, ok) == [op |-> op, name |-> name, uid |-> uid, ok |-> ok]

\* ------------------------------------------------------------- pure code
\* A generator that keeps one key for every request.
NewCSRCachedKey(k, fail) ==
    IF fail THEN [err |-> TRUE, csr |-> 0, key |-> 0]
    ELSE [err |-> FALSE, csr |-> 2, key |-> 2]

\* certs.go NewCSR: a fresh key from the random source k, and the request
\* for its public key; an error leaves both nil.
NewCSR(k, fail) ==
    IF fail THEN [err |-> TRUE, csr |-> 0, key |-> 0]
    ELSE [err |-> FALSE, csr |-> k, key |-> k]

\* certutil.ReadCACerts: the trusted roots, read on every validation.
ReadCACerts(fail) ==
    IF fail THEN [err |-> TRUE, roots |-> {}]
    ELSE [err |-> FALSE, roots |-> TrustedRoots]

\* LoadFromSecret, lines 238-245.
LoadFromSecret(ns, secretName, getErr) ==
    LET s == secrets[<<ns, secretName>>] IN
    IF getErr \/ ~s.exists
    THEN [err |-> TRUE, cert |-> NoCert, key |-> 0]
    ELSE [err |-> FALSE, cert |-> s.cert, key |-> s.key]

\* CheckSecret reaches ReadCACerts only when the secret was read and its
\* certificate decoded and parsed (lines 274-290).
ReachesRoots(ns, secretName, getErr) ==
    LET l == LoadFromSecret(ns, secretName, getErr) IN
    ~l.err /\ l.cert.kind = "x509"

\* CheckSecret, lines 273-317.
CheckSecret(ns, secretName, getErr, caErr) ==
    LET l == LoadFromSecret(ns, secretName, getErr)
        ca == ReadCACerts(caErr)
    IN  IF l.err THEN FALSE
        ELSE IF l.cert.kind \notin {"pem", "x509"} THEN FALSE   \* pem.Decode
        ELSE IF l.cert.kind # "x509" THEN FALSE                  \* ParseCertificate
        ELSE IF ca.err THEN FALSE                                \* ReadCACerts
        ELSE IF l.cert.issuer \notin ca.roots THEN FALSE         \* cert.Verify
        ELSE IF l.cert.pub # l.key THEN FALSE                    \* tls.X509KeyPair
        ELSE TRUE

\* getCSR, lines 153-155: the ownership labels match this identity.
Owned(r, ns, instance) ==
    /\ r.labels.ns = ns
    /\ r.labels.managedBy = ManagedBy
    /\ r.labels.instance = instance

\* A lookup that takes every resource of that name for this system's own.
getCSRAnyOwner(ns, instance, csrName, fail) ==
    IF ~fail /\ csrs[csrName].uid = 0 THEN "none"
    ELSE IF fail THEN "error"
    ELSE "owned"

\* getCSR, lines 140-159: "none", "owned", or an error.
getCSR(ns, instance, csrName, fail) ==
    LET r == csrs[csrName] IN
    IF ~fail /\ r.uid = 0 THEN "none"
    ELSE IF fail THEN "error"
    ELSE IF Owned(r, ns, instance) THEN "owned"
    ELSE "foreign"

\* sendCSR, lines 181-203: the resource that is submitted.
NewResource(uid, ns, instance, request) ==
    [uid |-> uid,
     labels |-> [ns |-> ns, managedBy |-> ManagedBy, instance |-> instance,
                 component |-> ""],
     request |-> request, conds |-> <<>>, cert |-> NoCert]

\* sendCSR, lines 205-210: the object Create goes on with is the response
\* of the create call.
SentCSR(resp) == [uid |-> resp.uid, conds |-> resp.conds]

\* approveCSR, lines 214-218.
Approved(c) == [c EXCEPT !.conds = Append(@, "Approved")]

\* Create, line 119: the condition that is looked at is the one at index
\* len(csr.Status.Conditions)-1 of the event's conditions, csr being the
\* object Create holds (0-based there, 1-based here).
CondIndex(c, ev) == Len(c.conds)

\* An event test that does not compare the UID of the event's resource with
\* the UID of the resource Create made.
OnEventAnyUID(c, ev) ==
    IF Len(ev.conds) = 0 THEN "skip"
    ELSE IF CondIndex(c, ev) < 1 \/ CondIndex(c, ev) > Len(ev.conds) THEN "panic"
    ELSE IF /\ ev.conds[CondIndex(c, ev)] = "Approved"
            /\ ev.cert # NoCert
         THEN "persist"
         ELSE "skip"

\* Create, lines 114-123: "skip" (continue), "persist", or "panic" (index
\* out of range).
OnEvent(c, ev) ==
    IF Len(ev.conds) = 0 THEN "skip"
    ELSE IF CondIndex(c, ev) < 1 \/ CondIndex(c, ev) > Len(ev.conds) THEN "panic"
    ELSE IF /\ ev.uid = c.uid
            /\ ev.conds[CondIndex(c, ev)] = "Approved"
            /\ ev.cert # NoCert
         THEN "persist"
         ELSE "skip"

\* A secret written without the private key.
NewSecretWithoutKey(ns, instance, component, cert, k) ==
    [exists |-> TRUE, cert |-> cert, key |-> 0,
     labels |-> [ns |-> ns, managedBy |-> ManagedBy, instance |-> instance,
                 component |-> component]]

\* SaveToSecret, lines 250-265: the secret that is written.
NewSecret(ns, instance, component, cert, k) ==
    [exists |-> TRUE, cert |-> cert, key |-> k,
     labels |-> [ns |-> ns, managedBy |-> ManagedBy, instance |-> instance,
                 component |-> component]]

\* A watch that starts from "now": what the resource already is, is not sent.
WatchFromNow(name) == <<>>

\* The watch of lines 91-97 names no resource version: it starts with the
\* current state of the selected resource.
WatchInitial(name) ==
    IF csrs[name].uid # 0 THEN <<Event("ADDED", csrs[name])>> ELSE <<>>


\* ------------------------------------------------------------- initial state
\* What the cluster may hold before the first Create for identity i: no
\* secret, or a secret under the name CheckSecret asks about that is usable,
\* does not decode, is issued by an untrusted root, or carries another key.
PreSecrets ==
    { NoSecret,
      [NoSecret EXCEPT !.exists = TRUE, !.cert = X509(ClusterSigner, 1), !.key = 1],
      [NoSecret EXCEPT !.exists = TRUE, !.cert = GarbageCert, !.key = 1],
      [NoSecret EXCEPT !.exists = TRUE, !.cert = X509("otherCA", 1), !.key = 1],
      [NoSecret EXCEPT !.exists = TRUE, !.cert = X509(ClusterSigner, 0), !.key = 1] }

\* ... and no CSR resource, or one under the derived name that is not this
\* identity's: its namespace, its managed-by or its instance label differs.
PreCSRs(i) ==
    LET own == [ns |-> i.ns, managedBy |-> ManagedBy, instance |-> i.instance,
                component |-> ""]
    IN  { NoCSR,
          [NoCSR EXCEPT !.uid = 1, !.labels = [own EXCEPT !.ns = "other"]],
          [NoCSR EXCEPT !.uid = 1, !.labels = [own EXCEPT !.managedBy = "other"]],
          [NoCSR EXCEPT !.uid = 1, !.labels = [own EXCEPT !.instance = "other"]] }

Init ==
    /\ pc = [p \in Callers |-> "idle"]
    /\ id \in [Callers -> Identities \cup {NoIdentity}]
    /\ id["c1"] # NoIdentity
    /\ inv = [p \in Callers |-> 0]
    /\ key = [p \in Callers |-> 0]
    /\ rawCSR = [p \in Callers |-> 0]
    /\ csr = [p \in Callers |-> NoLocalCSR]
    /\ updatedCSR = [p \in Callers |-> NoEvent]
    /\ ch = [p \in Callers |-> NoWatch]
    /\ ticked = [p \in Callers |-> FALSE]
    /\ ret = [p \in Callers |-> NoRet]
    /\ calls = [p \in Callers |-> <<>>]
    /\ prev = [p \in Callers |-> NoPrev]
    /\ \E s \in PreSecrets, r \in PreCSRs(id["c1"]) :
         /\ id["c2"] # NoIdentity => s = NoSecret /\ r = NoCSR
         /\ secrets = [k \in SecretKeys |->
                         IF k = <<id["c1"].ns, NameOf("c1")>> THEN s ELSE NoSecret]
         /\ csrs = [n \in CsrNames |-> IF n = NameOf("c1") THEN r ELSE NoCSR]
    /\ faults = 0

\* ------------------------------------------------------------- Create
\* Create returns r: the watch, if any, is read no more.
Return(p, r) ==
    /\ pc' = [pc EXCEPT ![p] = "done"]
    /\ ret' = [ret EXCEPT ![p] = r]

Goto(p, l) ==
    /\ pc' = [pc EXCEPT ![p] = l]
    /\ ret' = ret

Log(p, c) == calls' = [calls EXCEPT ![p] = Append(@, c)]

Fault(f) == faults' = IF f THEN faults + 1 ELSE faults

\* A caller invokes Create (again) with its identity descriptor.
Invoke(p) ==
    /\ pc[p] \in {"idle", "done"}
    /\ id[p] # NoIdentity
    /\ inv[p] < InvocationLimit
    /\ pc' = [pc EXCEPT ![p] = "check"]
    /\ inv' = [inv EXCEPT ![p] = @ + 1]
    /\ prev' = [prev EXCEPT ![p] =
                  [ran |-> pc[p] = "done", ret |-> ret[p], key |-> key[p],
                   uid |-> csr[p].uid]]
    /\ key' = [key EXCEPT ![p] = 0]
    /\ rawCSR' = [rawCSR EXCEPT ![p] = 0]
    /\ csr' = [csr EXCEPT ![p] = NoLocalCSR]
    /\ updatedCSR' = [updatedCSR EXCEPT ![p] = NoEvent]
    /\ ticked' = [ticked EXCEPT ![p] = FALSE]
    /\ ret' = [ret EXCEPT ![p] = NoRet]
    /\ calls' = [calls EXCEPT ![p] = <<>>]
    /\ UNCHANGED <<id, ch, csrs, secrets, faults>>

\* A Create that re-issues whatever CheckSecret says.
CheckIgnored(p) ==
    /\ pc[p] = "check"
    /\ Goto(p, "generate")
    /\ Log(p, Call("GetSecret", NameOf(p), 0, TRUE))
    /\ UNCHANGED <<id, inv, key, rawCSR, csr, updatedCSR, ch, ticked, prev,
                   csrs, secrets, faults>>

\* Create, lines 66-71.
Check(p) ==
    /\ pc[p] = "check"
    /\ \E getErr \in FaultChoices, caErr \in FaultChoices :
         /\ ~(getErr /\ caErr)
         /\ caErr => ReachesRoots(id[p].ns, NameOf(p), getErr)
         /\ IF CheckSecret(id[p].ns, NameOf(p), getErr, caErr)
            THEN Return(p, Ok("check"))
            ELSE Goto(p, "generate")
         /\ Log(p, Call("GetSecret", NameOf(p), 0, ~getErr))
         /\ Fault(getErr \/ caErr)
    /\ UNCHANGED <<id, inv, key, rawCSR, csr, updatedCSR, ch, ticked, prev,
                   csrs, secrets>>

\* Create, lines 73-76.
Generate(p) ==
    /\ pc[p] = "generate"
    /\ \E fail \in FaultChoices :
         LET g == NewCSR(Rand(p), fail) IN
         /\ IF g.err
            THEN Return(p, Err("generate", NameOf(p)))
            ELSE Goto(p, "getCSR")
         /\ key' = [key EXCEPT ![p] = g.key]
         /\ rawCSR' = [rawCSR EXCEPT ![p] = g.csr]
         /\ Fault(fail)
    /\ UNCHANGED <<id, inv, csr, updatedCSR, ch, ticked, calls, prev,
                   csrs, secrets>>

\* sendCSR, lines 165-171 (and Create, lines 80-82, on the error).
LookupCSR(p) ==
    /\ pc[p] = "getCSR"
    /\ \E fail \in FaultChoices :
         LET got == getCSR(id[p].ns, id[p].instance, NameOf(p), fail) IN
         /\ CASE got = "none" -> Goto(p, "create")
              [] got = "owned" -> Goto(p, "delete")
              [] got = "foreign" -> Return(p, Err("foreign", NameOf(p)))
              [] OTHER -> Return(p, Err("getCSR", NameOf(p)))
         /\ Log(p, Call("GetCSR", NameOf(p), csrs[NameOf(p)].uid, ~fail))
         /\ Fault(fail)
    /\ UNCHANGED <<id, inv, key, rawCSR, csr, updatedCSR, ch, ticked, prev,
                   csrs, secrets>>

\* A sendCSR whose delete returns success and leaves the old resource.
DeleteOldNoEffect(p) ==
    /\ pc[p] = "delete"
    /\ csrs[NameOf(p)].uid # 0
    /\ Goto(p, "getCSR")
    /\ Log(p, Call("DeleteCSR", NameOf(p), csrs[NameOf(p)].uid, TRUE))
    /\ UNCHANGED <<id, inv, key, rawCSR, csr, updatedCSR, ch, ticked, prev,
                   csrs, secrets, faults>>

\* A sendCSR that, having deleted the old resource, goes on with the object
\* it found instead of sending the request again.
DeleteOldKeepStale(p) ==
    /\ pc[p] = "delete"
    /\ csrs[NameOf(p)].uid # 0
    /\ Goto(p, "approve")
    /\ csr' = [csr EXCEPT ![p] = SentCSR(csrs[NameOf(p)])]
    /\ csrs' = [csrs EXCEPT ![NameOf(p)] = NoCSR]
    /\ ch' = Notify(NameOf(p), Event("DELETED", csrs[NameOf(p)]))
    /\ Log(p, Call("DeleteCSR", NameOf(p), csrs[NameOf(p)].uid, TRUE))
    /\ UNCHANGED <<id, inv, key, rawCSR, updatedCSR, ticked, prev, secrets, faults>>

\* sendCSR, lines 172-178: the delete is by name; then sendCSR again.
DeleteOld(p) ==
    /\ pc[p] = "delete"
    /\ \E fail \in FaultChoices :
         LET old == csrs[NameOf(p)]
             done == ~fail /\ old.uid # 0
         IN
         /\ IF done
            THEN /\ Goto(p, "getCSR")
                 /\ csrs' = [csrs EXCEPT ![NameOf(p)] = NoCSR]
                 /\ ch' = Notify(NameOf(p), Event("DELETED", old))
            ELSE /\ Return(p, Err("deleteOld", NameOf(p)))
                 /\ UNCHANGED <<csrs, ch>>
         /\ Log(p, Call("DeleteCSR", NameOf(p), old.uid, done))
         /\ Fault(fail)
    /\ UNCHANGED <<id, inv, key, rawCSR, csr, updatedCSR, ticked, prev,
                   secrets>>

\* A sendCSR that sends the request again when the create call failed.
CreateCSRRetries(p) ==
    /\ pc[p] = "create"
    /\ \E fail \in FaultChoices :
         LET new == NewResource(NewUID(rawCSR[p]), id[p].ns, id[p].instance, rawCSR[p])
             done == ~fail /\ csrs[NameOf(p)].uid = 0
         IN
         /\ IF done
            THEN /\ Goto(p, "approve")
                 /\ csrs' = [csrs EXCEPT ![NameOf(p)] = new]
                 /\ csr' = [csr EXCEPT ![p] = SentCSR(new)]
                 /\ ch' = Notify(NameOf(p), Event("ADDED", new))
            ELSE /\ Goto(p, "getCSR")
                 /\ UNCHANGED <<csrs, csr, ch>>
         /\ Log(p, Call("CreateCSR", NameOf(p), IF done THEN new.uid ELSE 0, done))
         /\ Fault(fail)
    /\ UNCHANGED <<id, inv, key, rawCSR, updatedCSR, ticked, prev, secrets>>

\* A sendCSR that, when the name is taken, goes on with the resource that
\* has it.
CreateCSRAdopts(p) ==
    /\ pc[p] = "create"
    /\ \E fail \in FaultChoices :
         LET new == NewResource(NewUID(rawCSR[p]), id[p].ns, id[p].instance, rawCSR[p])
             done == ~fail /\ csrs[NameOf(p)].uid = 0
         IN
         /\ IF done
            THEN /\ Goto(p, "approve")
                 /\ csrs' = [csrs EXCEPT ![NameOf(p)] = new]
                 /\ csr' = [csr EXCEPT ![p] = SentCSR(new)]
                 /\ ch' = Notify(NameOf(p), Event("ADDED", new))
            ELSE IF ~fail
            THEN /\ Goto(p, "approve")
                 /\ csr' = [csr EXCEPT ![p] = SentCSR(csrs[NameOf(p)])]
                 /\ UNCHANGED <<csrs, ch>>
            ELSE /\ Return(p, Err("create", NameOf(p)))
                 /\ UNCHANGED <<csrs, csr, ch>>
         /\ Log(p, Call("CreateCSR", NameOf(p), IF done THEN new.uid ELSE 0, done))
         /\ Fault(fail)
    /\ UNCHANGED <<id, inv, key, rawCSR, updatedCSR, ticked, prev, secrets>>

\* sendCSR, lines 181-210.
CreateCSR(p) ==
    /\ pc[p] = "create"
    /\ \E fail \in FaultChoices :
         LET new == NewResource(NewUID(rawCSR[p]), id[p].ns, id[p].instance, rawCSR[p])
             done == ~fail /\ csrs[NameOf(p)].uid = 0
         IN
         /\ IF done
            THEN /\ Goto(p, "approve")
                 /\ csrs' = [csrs EXCEPT ![NameOf(p)] = new]
                 /\ csr' = [csr EXCEPT ![p] = SentCSR(new)]
                 /\ ch' = Notify(NameOf(p), Event("ADDED", new))
            ELSE /\ Return(p, Err("create", NameOf(p)))
                 /\ UNCHANGED <<csrs, csr, ch>>
         /\ Log(p, Call("CreateCSR", NameOf(p), IF done THEN new.uid ELSE 0, done))
         /\ Fault(fail)
    /\ UNCHANGED <<id, inv, key, rawCSR, updatedCSR, ticked, prev, secrets>>

\* A Create that opens the watch whatever the approval update returned.
ApproveIgnoresError(p) ==
    /\ pc[p] = "approve"
    /\ \E fail \in FaultChoices :
         LET mine == Approved(csr[p])
             cur == csrs[NameOf(p)]
             done == /\ ~fail
                     /\ cur.uid = csr[p].uid
                     /\ cur.conds = csr[p].conds
                     /\ cur.cert = NoCert
             new == [cur EXCEPT !.conds = mine.conds]
         IN
         /\ csr' = [csr EXCEPT ![p] = mine]
         /\ Goto(p, "watch")
         /\ IF done
            THEN /\ csrs' = [csrs EXCEPT ![NameOf(p)] = new]
                 /\ ch' = Notify(NameOf(p), Event("MODIFIED", new))
            ELSE UNCHANGED <<csrs, ch>>
         /\ Log(p, Call("UpdateApproval", NameOf(p), csr[p].uid, done))
         /\ Fault(fail)
    /\ UNCHANGED <<id, inv, key, rawCSR, updatedCSR, ticked, prev, secrets>>

\* approveCSR, lines 213-224 (and Create, lines 83-86). The update is
\* refused when the resource is gone, is another resource of that name, or
\* was written since the object was read.
Approve(p) ==
    /\ pc[p] = "approve"
    /\ \E fail \in FaultChoices :
         LET mine == Approved(csr[p])
             cur == csrs[NameOf(p)]
             done == /\ ~fail
                     /\ cur.uid = csr[p].uid
                     /\ cur.conds = csr[p].conds
                     /\ cur.cert = NoCert
             new == [cur EXCEPT !.conds = mine.conds]
         IN
         /\ csr' = [csr EXCEPT ![p] = mine]
         /\ IF done
            THEN /\ Goto(p, "watch")
                 /\ csrs' = [csrs EXCEPT ![NameOf(p)] = new]
                 /\ ch' = Notify(NameOf(p), Event("MODIFIED", new))
            ELSE /\ Return(p, Err("approve", ""))
                 /\ UNCHANGED <<csrs, ch>>
         /\ Log(p, Call("UpdateApproval", NameOf(p), csr[p].uid, done))
         /\ Fault(fail)
    /\ UNCHANGED <<id, inv, key, rawCSR, updatedCSR, ticked, prev,
                   secrets>>

\* Create, lines 88-101.
Watch(p) ==
    /\ pc[p] = "watch"
    /\ \E fail \in FaultChoices :
         /\ IF fail
            THEN Return(p, Err("watch", "")) /\ ch' = ch
            ELSE /\ Goto(p, "wait")
                 /\ ch' = [ch EXCEPT ![p] = [open |-> TRUE, q |-> WatchInitial(NameOf(p))]]
         /\ Log(p, Call("Watch", NameOf(p), 0, ~fail))
         /\ Fault(fail)
    /\ UNCHANGED <<id, inv, key, rawCSR, csr, updatedCSR, ticked, prev,
                   csrs, secrets>>

\* Create, lines 106-108: time.After fires once.
\* A wait loop that gives up at the tick.
TickTimesOut(p) ==
    /\ pc[p] = "wait"
    /\ ~ticked[p]
    /\ Return(p, Err("watch", NameOf(p)))
    /\ UNCHANGED <<id, inv, key, rawCSR, csr, updatedCSR, ch, ticked, calls, prev,
                   csrs, secrets, faults>>

\* Create, lines 90 and 106-108: the timer fires once, and the loop goes on.
Tick(p) ==
    /\ pc[p] = "wait"
    /\ ~ticked[p]
    /\ ticked' = [ticked EXCEPT ![p] = TRUE]
    /\ UNCHANGED <<pc, id, inv, key, rawCSR, csr, updatedCSR, ch, ret, calls, prev,
                   csrs, secrets, faults>>

\* Create, lines 109-125 and 135: an event is received. Past a qualifying
\* event Create never reads the channel again, so the channel is dropped.
Receive(p) ==
    /\ pc[p] = "wait"
    /\ ch[p].q # <<>>
    /\ LET ev == Head(ch[p].q)
           what == OnEvent(csr[p], ev)
       IN
       CASE what = "persist" ->
              /\ Goto(p, "save")
              /\ ticked' = [ticked EXCEPT ![p] = FALSE]
              /\ updatedCSR' = [updatedCSR EXCEPT ![p] = ev]
              /\ ch' = [ch EXCEPT ![p] = NoWatch]
         [] what = "panic" ->
              /\ Return(p, Err("panic", ""))
              /\ ticked' = [ticked EXCEPT ![p] = FALSE]
              /\ updatedCSR' = updatedCSR
              /\ ch' = [ch EXCEPT ![p] = NoWatch]
         [] OTHER ->
              /\ Goto(p, "wait")
              /\ ticked' = ticked
              /\ updatedCSR' = updatedCSR
              /\ ch' = [ch EXCEPT ![p].q = Tail(@)]
    /\ UNCHANGED <<id, inv, key, rawCSR, csr, calls, prev,
                   csrs, secrets, faults>>

\* A wait loop that takes the closed channel for the end of a good wait.
ReceiveClosedAsSuccess(p) ==
    /\ pc[p] = "wait"
    /\ ch[p].q = <<>>
    /\ ~ch[p].open
    /\ Return(p, Ok("watchClosed"))
    /\ ticked' = [ticked EXCEPT ![p] = FALSE]
    /\ UNCHANGED <<id, inv, key, rawCSR, csr, updatedCSR, ch, calls, prev,
                   csrs, secrets, faults>>

\* Create, lines 110-112: the channel is closed and drained.
ReceiveClosed(p) ==
    /\ pc[p] = "wait"
    /\ ch[p].q = <<>>
    /\ ~ch[p].open
    /\ Return(p, Err("watchClosed", NameOf(p)))
    /\ ticked' = [ticked EXCEPT ![p] = FALSE]
    /\ UNCHANGED <<id, inv, key, rawCSR, csr, updatedCSR, ch, calls, prev,
                   csrs, secrets, faults>>

\* A Persist that writes the secret over the one stored under the name.
SaveOverwrites(p) ==
    /\ pc[p] = "save"
    /\ \E fail \in FaultChoices :
         LET k == <<id[p].ns, SecretName(id[p].instance, id[p].suffix)>>
             done == ~fail
         IN
         /\ IF done
            THEN /\ Goto(p, "cleanup")
                 /\ secrets' = [secrets EXCEPT ![k] =
                                  NewSecret(id[p].ns, id[p].instance, id[p].component,
                                            updatedCSR[p].cert, key[p])]
            ELSE /\ Return(p, Err("save", ""))
                 /\ secrets' = secrets
         /\ Log(p, Call("CreateSecret", k[2], 0, done))
         /\ Fault(fail)
    /\ UNCHANGED <<id, inv, key, rawCSR, csr, updatedCSR, ch, ticked, prev,
                   csrs>>

\* A Persist that deletes the CSR resource whether or not the secret was
\* written.
SaveThenAlwaysCleanup(p) ==
    /\ pc[p] = "save"
    /\ \E fail \in FaultChoices :
         LET k == <<id[p].ns, SecretName(id[p].instance, id[p].suffix)>>
             done == ~fail /\ ~secrets[k].exists
         IN
         /\ Goto(p, "cleanup")
         /\ secrets' = IF done
                        THEN [secrets EXCEPT ![k] =
                                NewSecret(id[p].ns, id[p].instance, id[p].component,
                                          updatedCSR[p].cert, key[p])]
                        ELSE secrets
         /\ Log(p, Call("CreateSecret", k[2], 0, done))
         /\ Fault(fail)
    /\ UNCHANGED <<id, inv, key, rawCSR, csr, updatedCSR, ch, ticked, prev,
                   csrs>>

\* Create, line 127, and SaveToSecret, lines 247-270; Create, lines 128-133.
Save(p) ==
    /\ pc[p] = "save"
    /\ \E fail \in FaultChoices :
         LET k == <<id[p].ns, SecretName(id[p].instance, id[p].suffix)>>
             done == ~fail /\ ~secrets[k].exists
         IN
         /\ IF done
            THEN /\ Goto(p, "cleanup")
                 /\ secrets' = [secrets EXCEPT ![k] =
                                  NewSecret(id[p].ns, id[p].instance, id[p].component,
                                            updatedCSR[p].cert, key[p])]
            ELSE /\ Return(p, Err("save", ""))
                 /\ secrets' = secrets
         /\ Log(p, Call("CreateSecret", k[2], 0, done))
         /\ Fault(fail)
    /\ UNCHANGED <<id, inv, key, rawCSR, csr, updatedCSR, ch, ticked, prev,
                   csrs>>

\* A cleanup that drops the result of the delete and returns success.
CleanupIgnoresResult(p) ==
    /\ pc[p] = "cleanup"
    /\ \E fail \in FaultChoices :
         LET old == csrs[NameOf(p)]
             done == ~fail /\ old.uid # 0
         IN
         /\ Return(p, Ok("cleanup"))
         /\ IF done
            THEN /\ csrs' = [csrs EXCEPT ![NameOf(p)] = NoCSR]
                 /\ ch' = Notify(NameOf(p), Event("DELETED", old))
            ELSE UNCHANGED <<csrs, ch>>
         /\ Log(p, Call("DeleteCSR", NameOf(p), old.uid, done))
         /\ Fault(fail)
    /\ UNCHANGED <<id, inv, key, rawCSR, csr, updatedCSR, ticked, prev,
                   secrets>>

\* Create, lines 129-131: the delete is by name, and its result is returned.
Cleanup(p) ==
    /\ pc[p] = "cleanup"
    /\ \E fail \in FaultChoices :
         LET old == csrs[NameOf(p)]
             done == ~fail /\ old.uid # 0
         IN
         /\ IF done
            THEN /\ Return(p, Ok("cleanup"))
                 /\ csrs' = [csrs EXCEPT ![NameOf(p)] = NoCSR]
                 /\ ch' = Notify(NameOf(p), Event("DELETED", old))
            ELSE /\ Return(p, Err("cleanup", ""))
                 /\ UNCHANGED <<csrs, ch>>
         /\ Log(p, Call("DeleteCSR", NameOf(p), old.uid, done))
         /\ Fault(fail)
    /\ UNCHANGED <<id, inv, key, rawCSR, csr, updatedCSR, ticked, prev,
                   secrets>>

\* ------------------------------------------------------------- environment
\* The signing authority signs an approved request that is not denied.
Sign(n) ==
    /\ csrs[n].uid # 0
    /\ csrs[n].cert = NoCert
    /\ \E i \in 1..Len(csrs[n].conds) : csrs[n].conds[i] = "Approved"
    /\ \A i \in 1..Len(csrs[n].conds) : csrs[n].conds[i] # "Denied"
    /\ LET new == [csrs[n] EXCEPT !.cert = X509(ClusterSigner, csrs[n].request)] IN
       /\ csrs' = [csrs EXCEPT ![n] = new]
       /\ ch' = Notify(n, Event("MODIFIED", new))
    /\ UNCHANGED <<pc, id, inv, key, rawCSR, csr, updatedCSR, ticked, ret, calls, prev,
                   secrets, faults>>

\* Another approver denies a request made by this system.
Deny(n) ==
    /\ csrs[n].uid # 0
    /\ csrs[n].labels.managedBy = ManagedBy
    /\ \A i \in 1..Len(csrs[n].conds) : csrs[n].conds[i] # "Denied"
    /\ LET new == [csrs[n] EXCEPT !.conds = Append(@, "Denied")] IN
       /\ csrs' = [csrs EXCEPT ![n] = new]
       /\ ch' = Notify(n, Event("MODIFIED", new))
    /\ UNCHANGED <<pc, id, inv, key, rawCSR, csr, updatedCSR, ticked, ret, calls, prev,
                   secrets, faults>>

\* The server ends the watch (the five minutes of line 89 are over).
CloseWatch(p) ==
    /\ pc[p] = "wait"
    /\ ch[p].open
    /\ ch' = [ch EXCEPT ![p].open = FALSE]
    /\ UNCHANGED <<pc, id, inv, key, rawCSR, csr, updatedCSR, ticked, ret, calls, prev,
                   csrs, secrets, faults>>

\* ------------------------------------------------------------- specification
Step(p) ==
    \/ Invoke(p)
    \/ Check(p)
    \/ Generate(p)
    \/ LookupCSR(p)
    \/ DeleteOld(p)
    \/ CreateCSR(p)
    \/ Approve(p)
    \/ Watch(p)
    \/ Tick(p)
    \/ Receive(p)
    \/ ReceiveClosed(p)
    \/ Save(p)
    \/ Cleanup(p)

Environment ==
    \/ \E n \in CsrNames : Sign(n)
    \/ \E n \in CsrNames : Deny(n)
    \/ \E p \in Callers : CloseWatch(p)

Next ==
    \/ \E p \in Callers : Step(p)
    \/ Environment

Spec == Init /\ [][Next]_vars


\* A run with one caller, an empty cluster, no failure injected, no other
\* approver and a watch that stays open; the caller keeps running and the
\* signing authority signs every approved request.
InitLive ==
    /\ Init
    /\ id["c2"] = NoIdentity
    /\ secrets = [k \in SecretKeys |-> NoSecret]
    /\ csrs = [n \in CsrNames |-> NoCSR]

NoFaults == faults' = faults

StepLive(p) ==
    \/ Invoke(p)
    \/ Check(p) /\ NoFaults
    \/ Generate(p) /\ NoFaults
    \/ LookupCSR(p) /\ NoFaults
    \/ CreateCSR(p) /\ NoFaults
    \/ Approve(p) /\ NoFaults
    \/ Watch(p) /\ NoFaults
    \/ Tick(p)
    \/ Receive(p)
    \/ Save(p) /\ NoFaults
    \/ Cleanup(p) /\ NoFaults

Signing == \E n \in CsrNames : Sign(n)

NextLive == StepLive("c1") \/ Signing

SpecLive ==
    /\ InitLive
    /\ [][NextLive]_vars
    /\ WF_vars(StepLive("c1"))
    /\ WF_vars(Signing)


\* ------------------------------------------------------------- claims
HasCall(p, op) == \E i \in 1..Len(calls[p]) : calls[p][i].op = op
HasCallNext(p, op) == \E i \in 1..Len(calls'[p]) : calls'[p][i].op = op

\* Calls of the current invocation of p other than the read of the secret.
SideEffects(p) == \E i \in 1..Len(calls[p]) : calls[p][i].op # "GetSecret"

\* The secret Create writes for the identity of p.
SecretKeyOf(p) == <<id[p].ns, SecretName(id[p].instance, id[p].suffix)>>

\* C1: when a Create has returned success, the next Create of the same caller
\* with the same descriptor (nothing failing in the run) is a no-op: it
\* returns success, generates no key, and makes no call other than reading
\* the secret.
C1_SecondCallNoOp ==
    \A p \in Callers :
        (prev[p].ran /\ prev[p].ret.ok /\ faults = 0) =>
            /\ ~SideEffects(p)
            /\ key[p] = 0
            /\ pc[p] = "done" => ret[p].ok

\* C2: with no secret and no CSR resource at the start, nothing failing and a
\* signing authority that signs every approved request, the first Create
\* returns success and the secret instance-suffix holds the certificate
\* signed for the submitted request and the key of that invocation.
Issued(p) ==
    /\ inv[p] = 1
    /\ pc[p] = "done"
    /\ ret[p].ok
    /\ key[p] # 0
    /\ secrets[SecretKeyOf(p)].exists
    /\ secrets[SecretKeyOf(p)].key = key[p]
    /\ secrets[SecretKeyOf(p)].cert = X509(ClusterSigner, rawCSR[p])
    /\ secrets[SecretKeyOf(p)].cert.pub = key[p]

C2_EventuallyIssued == <>Issued("c1")

\* The request was signed before the watch was opened: the event Create
\* persisted from is the one the watch started with.
C2_Witness == Issued("c1") /\ updatedCSR["c1"].type = "ADDED"

\* C3: when the watch channel is closed with no event left on it, the step
\* Create takes is to return an error that names the CSR resource, and this
\* invocation has written no secret.
C3_ClosedWatchFails ==
    [][\A p \in Callers :
         (pc[p] = "wait" /\ ch[p].q = <<>> /\ ~ch[p].open /\ pc'[p] # "wait") =>
             /\ pc'[p] = "done"
             /\ ~ret'[p].ok
             /\ ret'[p].names = NameOf(p)
             /\ secrets' = secrets
             /\ ~HasCallNext(p, "CreateSecret")]_vars

C3_Witness ==
    \E p \in Callers :
        /\ pc[p] = "done"
        /\ ret[p] = Err("watchClosed", NameOf(p))
        /\ ~secrets[SecretKeyOf(p)].exists

\* C4: when the lookup of sendCSR finds a CSR resource of the derived name
\* whose namespace, managed-by or instance label is not this identity's,
\* Create returns an error with that step, the resource and the secrets are
\* as they were, and the invocation has issued no delete, create or approval
\* for that resource and no secret write.
C4_ForeignUntouched ==
    [][\A p \in Callers :
         LET r == csrs[NameOf(p)] IN
         (/\ pc[p] = "getCSR"
          /\ calls'[p] # calls[p]
          /\ r.uid # 0
          /\ ~Owned(r, id[p].ns, id[p].instance)) =>
             /\ pc'[p] = "done"
             /\ ~ret'[p].ok
             /\ csrs' = csrs
             /\ secrets' = secrets
             /\ ~HasCallNext(p, "CreateSecret")
             /\ \A i \in 1..Len(calls'[p]) :
                    calls'[p][i].uid = r.uid => calls'[p][i].op = "GetCSR"]_vars

C4_Witness ==
    \E p \in Callers :
        /\ pc[p] = "done"
        /\ ret[p] = Err("foreign", NameOf(p))
        /\ csrs[NameOf(p)].uid # 0
        /\ ~Owned(csrs[NameOf(p)], id[p].ns, id[p].instance)

\* C5: when the lookup finds a CSR resource of the derived name that this
\* identity owns, the next call deletes it; a CSR resource is created only
\* after a lookup that found none, and carries the request generated in this
\* invocation; the approval is submitted for the resource the create call
\* just returned, never for one that was found and deleted.
C5_StaleReplaced ==
    \A p \in Callers :
        /\ \A i \in 1..Len(calls[p]) :
             LET c == calls[p][i] IN
             /\ (c.op = "GetCSR" /\ c.ok /\ c.uid # 0 /\ i < Len(calls[p])) =>
                    calls[p][i + 1].op = "DeleteCSR"
             /\ (c.op = "CreateCSR") =>
                    /\ i > 1
                    /\ calls[p][i - 1] = Call("GetCSR", NameOf(p), 0, TRUE)
             /\ (c.op = "UpdateApproval") =>
                    /\ i > 1
                    /\ calls[p][i - 1].op = "CreateCSR"
                    /\ calls[p][i - 1].ok
                    /\ calls[p][i - 1].uid = c.uid
                    /\ \A j \in 1..(i - 1) :
                           calls[p][j].op = "DeleteCSR" => calls[p][j].uid # c.uid
        /\ (csr[p].uid # 0 /\ csrs[NameOf(p)].uid = csr[p].uid) =>
               /\ csrs[NameOf(p)].request = rawCSR[p]
               /\ rawCSR[p] = Rand(p)

C5_Witness ==
    \E p \in Callers :
        \E i, j, k \in 1..Len(calls[p]) :
            /\ i < j /\ j < k
            /\ calls[p][i].op = "DeleteCSR" /\ calls[p][i].ok
            /\ calls[p][j].op = "CreateCSR" /\ calls[p][j].ok
            /\ calls[p][k].op = "UpdateApproval" /\ calls[p][k].ok
            /\ calls[p][i].uid # calls[p][k].uid


\* C6: in a Create that follows a failed one of the same caller, either the
\* return is a success at the Check step with no call but the read of the
\* secret, or a key is generated that is not the key of the failed attempt;
\* the CSR resource it goes on with is not the one of the failed attempt,
\* which is no longer in the control plane once the new one is created, and
\* the event it persists from is an event of the new resource, whose request
\* is the new one.
C6_RetryFresh ==
    \A p \in Callers :
        (prev[p].ran /\ ~prev[p].ret.ok) =>
            /\ (pc[p] = "done" /\ ret[p].at = "check") =>
                   ret[p].ok /\ ~SideEffects(p) /\ key[p] = 0
            /\ (pc[p] \notin {"check", "generate"} /\ ret[p].at \notin {"check", "generate"}) =>
                   key[p] # 0 /\ key[p] # prev[p].key /\ rawCSR[p] = key[p]
            /\ csr[p].uid # 0 =>
                   /\ csr[p].uid # prev[p].uid
                   /\ prev[p].uid # 0 => HasCall(p, "DeleteCSR")
            /\ pc[p] \in {"approve", "watch"} =>
                   (prev[p].uid # 0 => csrs[NameOf(p)].uid # prev[p].uid)
            /\ updatedCSR[p].uid # 0 =>
                   /\ updatedCSR[p].uid = csr[p].uid
                   /\ updatedCSR[p].cert = X509(ClusterSigner, key[p])
            /\ HasCall(p, "CreateSecret") /\ calls[p][Len(calls[p])].ok =>
                   secrets[SecretKeyOf(p)].key = key[p]

\* A retry that found the CSR resource of the failed attempt, deleted it, and
\* waits for the new one to be signed.
C6_Witness ==
    \E p \in Callers :
        /\ prev[p].ran /\ ~prev[p].ret.ok
        /\ prev[p].uid # 0
        /\ pc[p] = "wait"
        /\ \E i \in 1..Len(calls[p]) :
               calls[p][i] = Call("DeleteCSR", NameOf(p), prev[p].uid, TRUE)
        /\ csrs[NameOf(p)].uid = csr[p].uid

\* C7: a secret that is there but fails validation is treated as an absent
\* one: with nothing failing, the Create that has seen its request signed
\* returns success, and the secret instance-suffix is usable.
InvalidBefore(p) ==
    /\ secrets[<<id[p].ns, NameOf(p)>>].exists
    /\ secrets[<<id[p].ns, NameOf(p)>>].labels = NoLabels
    /\ ~CheckSecret(id[p].ns, NameOf(p), FALSE, FALSE)

C7_InvalidAsAbsent ==
    \A p \in Callers :
        (/\ inv[p] = 1
         /\ pc[p] = "done"
         /\ faults = 0
         /\ updatedCSR[p].uid # 0
         /\ InvalidBefore(p)) =>
            /\ ret[p].ok
            /\ CheckSecret(id[p].ns, SecretKeyOf(p)[2], FALSE, FALSE)

\* C8: two Create invocations for different identity descriptors never
\* operate on the same CSR resource or the same secret, and none ends with
\* the error of a CSR resource that is not its own.
C8_IdentitiesDisjoint ==
    \A p, q \in Callers :
        (p # q /\ id[p] # NoIdentity /\ id[q] # NoIdentity /\ id[p] # id[q]) =>
            /\ \A i \in 1..Len(calls[p]), j \in 1..Len(calls[q]) :
                   /\ calls[p][i].uid # 0 => calls[p][i].uid # calls[q][j].uid
                   /\ (calls[p][i].op \in {"GetSecret", "CreateSecret"}
                       /\ calls[q][j].op \in {"GetSecret", "CreateSecret"}) =>
                          <<id[p].ns, calls[p][i].name>> # <<id[q].ns, calls[q][j].name>>
            /\ pc[p] = "done" => ret[p].at # "foreign"

\* C9: when CheckSecret finds the secret usable, the step Create takes is to
\* return success; the CSR resources, the secrets and the watch channels are
\* as they were, and the invocation has made no call but the read of the
\* secret.
C9_UsableShortCircuit ==
    [][\A p \in Callers :
         (/\ pc[p] = "check"
          /\ calls'[p] # calls[p]
          /\ faults' = faults
          /\ CheckSecret(id[p].ns, NameOf(p), FALSE, FALSE)) =>
             /\ pc'[p] = "done"
             /\ ret'[p] = Ok("check")
             /\ csrs' = csrs
             /\ secrets' = secrets
             /\ ch' = ch
             /\ key'[p] = 0
             /\ calls'[p] = <<Call("GetSecret", NameOf(p), 0, TRUE)>>]_vars

C9_Witness ==
    \E p \in Callers :
        /\ pc[p] = "done"
        /\ ret[p] = Ok("check")
        /\ calls[p] = <<Call("GetSecret", NameOf(p), 0, TRUE)>>
        /\ CheckSecret(id[p].ns, NameOf(p), FALSE, FALSE)

\* C10: Create goes on to Persist only from an event whose UID is that of the
\* CSR resource it created, whose last condition is Approved, and which
\* carries a signed certificate.
C10_PersistOnlyOnLatestApproved ==
    \A p \in Callers :
        updatedCSR[p].uid # 0 =>
            /\ updatedCSR[p].uid = csr[p].uid
            /\ Len(updatedCSR[p].conds) > 0
            /\ updatedCSR[p].conds[Len(updatedCSR[p].conds)] = "Approved"
            /\ updatedCSR[p].cert # NoCert


\* The last call of the invocation p is in, after the step.
LastCallNext(p) == calls'[p][Len(calls'[p])]

Solo == id["c2"] = NoIdentity

\* C11: when the write of the secret fails, the step Create takes is to
\* return the error of Persist; the CSR resources and the secrets are as they
\* were, the invocation has issued no delete for the CSR resource it created,
\* and, with no other caller, that resource is still in the control plane
\* with its signed certificate.
C11_PersistFailureKeepsCSR ==
    [][\A p \in Callers :
         (/\ pc[p] = "save"
          /\ calls'[p] # calls[p]
          /\ ~LastCallNext(p).ok) =>
             /\ LastCallNext(p).op = "CreateSecret"
             /\ pc'[p] = "done"
             /\ ret'[p] = Err("save", "")
             /\ csrs' = csrs
             /\ secrets' = secrets
             /\ \A i \in 1..Len(calls'[p]) :
                    calls'[p][i].op = "DeleteCSR" => calls'[p][i].uid # csr[p].uid
             /\ Solo =>
                    /\ csrs'[NameOf(p)].uid = csr[p].uid
                    /\ csrs'[NameOf(p)].cert = updatedCSR[p].cert
                    /\ csrs'[NameOf(p)].cert # NoCert]_vars

C11_Witness ==
    \E p \in Callers :
        /\ pc[p] = "done"
        /\ ret[p] = Err("save", "")
        /\ csrs[NameOf(p)].uid = csr[p].uid
        /\ csrs[NameOf(p)].cert # NoCert
        /\ ~HasCall(p, "DeleteCSR")

\* C12: once the secret is written, the next call of Create is the delete of
\* the CSR resource of the derived name, and Create returns with the result
\* of that delete: success when it succeeded, an error when it failed; the
\* secrets, with the one just written, are as they were.
C12_ReturnsDeleteResult ==
    [][\A p \in Callers :
         /\ (pc[p] = "save" /\ calls'[p] # calls[p] /\ LastCallNext(p).ok) =>
                /\ pc'[p] = "cleanup"
                /\ secrets'[SecretKeyOf(p)].exists
         /\ (pc[p] = "cleanup" /\ calls'[p] # calls[p]) =>
                /\ LastCallNext(p).op = "DeleteCSR"
                /\ LastCallNext(p).name = NameOf(p)
                /\ pc'[p] = "done"
                /\ ret'[p].ok = LastCallNext(p).ok
                /\ ret'[p].at = "cleanup"
                /\ secrets' = secrets
                /\ secrets[SecretKeyOf(p)].exists
                /\ secrets[SecretKeyOf(p)].key = key[p]]_vars

\* The delete failed: Create returned an error with the secret stored.
C12_Witness ==
    \E p \in Callers :
        /\ pc[p] = "done"
        /\ ret[p] = Err("cleanup", "")
        /\ secrets[SecretKeyOf(p)].exists
        /\ secrets[SecretKeyOf(p)].key = key[p]
        /\ secrets[SecretKeyOf(p)].cert = updatedCSR[p].cert

\* C13: in one invocation, every approval update comes after a create call
\* of the CSR resource that succeeded, and every opening of the watch comes
\* after an approval update that succeeded.
C13_CreateApproveWatchOrder ==
    \A p \in Callers :
        \A i \in 1..Len(calls[p]) :
            /\ calls[p][i].op = "UpdateApproval" =>
                   \E j \in 1..(i - 1) :
                       calls[p][j].op = "CreateCSR" /\ calls[p][j].ok
            /\ calls[p][i].op = "Watch" =>
                   \E j \in 1..(i - 1) :
                       calls[p][j].op = "UpdateApproval" /\ calls[p][j].ok

C13_Witness ==
    \E p \in Callers :
        \E i, j, k \in 1..Len(calls[p]) :
            /\ i < j /\ j < k
            /\ calls[p][i].op = "CreateCSR" /\ calls[p][i].ok
            /\ calls[p][j].op = "UpdateApproval" /\ calls[p][j].ok
            /\ calls[p][k].op = "Watch" /\ calls[p][k].ok


\* C14: a secret that exists is never changed: whatever step is taken, every
\* secret stored before the step has the same certificate, key and labels
\* after it. Persist creates, and fails on a name that is taken.
C14_SecretsWriteOnce ==
    [][\A k \in SecretKeys : secrets[k].exists => secrets'[k] = secrets[k]]_vars

\* Persist was tried on a name that was taken: nothing was made to fail, and
\* the create of the secret was refused.
C14_Witness ==
    \E p \in Callers :
        /\ pc[p] = "done"
        /\ ret[p] = Err("save", "")
        /\ faults = 0
        /\ secrets[SecretKeyOf(p)].exists
        /\ secrets[SecretKeyOf(p)].key # key[p]

\* The deletes sendCSR issued in the invocation p is in: those before Persist.
SendDeletes(p) ==
    {i \in 1..Len(calls[p]) :
        /\ calls[p][i].op = "DeleteCSR"
        /\ \A j \in 1..(i - 1) : calls[p][j].op # "CreateSecret"}

\* C15: every delete of sendCSR follows a lookup that found an owned
\* resource, and a delete that succeeded is followed by one new lookup. With
\* one caller sendCSR deletes at most once and looks up at most twice; after
\* the delete it creates the new resource or Create returns an error.
C15_StalePathBounded ==
    \A p \in Callers :
        /\ \A i \in SendDeletes(p) :
               /\ i > 1
               /\ calls[p][i - 1].op = "GetCSR"
               /\ calls[p][i - 1].ok
               /\ calls[p][i - 1].uid # 0
               /\ Len(calls[p]) > i =>
                      /\ calls[p][i].ok
                      /\ calls[p][i + 1].op = "GetCSR"
               /\ ~calls[p][i].ok =>
                      /\ pc[p] = "done"
                      /\ ret[p] = Err("deleteOld", NameOf(p))
        /\ Solo =>
               /\ Cardinality(SendDeletes(p)) <= 1
               /\ Cardinality({i \in 1..Len(calls[p]) : calls[p][i].op = "GetCSR"}) <= 2
               /\ \A i \in SendDeletes(p) :
                      /\ Len(calls[p]) > i + 1 => calls[p][i + 2].op = "CreateCSR"
                      /\ (Len(calls[p]) = i + 1 /\ pc[p] = "done") => ~ret[p].ok
                      /\ (Len(calls[p]) = i + 1 /\ pc[p] # "done") =>
                             /\ pc[p] = "create"
                             /\ csrs[NameOf(p)].uid = 0

C15_Witness ==
    /\ Solo
    /\ \E p \in Callers :
           \E i \in SendDeletes(p) :
               /\ calls[p][i].ok
               /\ Len(calls[p]) > i + 1
               /\ calls[p][i + 2].op = "CreateCSR"
               /\ calls[p][i + 2].ok

\* C17: a tick leaves the caller in the wait loop and changes nothing the
\* loop reads. The loop is left only on the closed channel, with the error
\* that names the CSR, or on a qualifying event, for Persist.
C17_TickNeverEndsWait ==
    [][\A p \in Callers :
         /\ (pc[p] = "wait" /\ ~ticked[p] /\ ticked'[p]) =>
                /\ pc'[p] = "wait"
                /\ ch'[p] = ch[p]
                /\ ret'[p] = ret[p]
         /\ (pc[p] = "wait" /\ pc'[p] # "wait") =>
                \/ /\ ch[p].q = <<>>
                   /\ ~ch[p].open
                   /\ pc'[p] = "done"
                   /\ ret'[p] = Err("watchClosed", NameOf(p))
                \/ /\ ch[p].q # <<>>
                   /\ OnEvent(csr[p], Head(ch[p].q)) = "persist"
                   /\ pc'[p] = "save"]_vars

\* The tick has fired, no event is queued, and the caller is still waiting.
C17_Witness ==
    \E p \in Callers :
        /\ pc[p] = "wait"
        /\ ticked[p]
        /\ ch[p].open
        /\ ch[p].q = <<>>


\* The resource caller q created and approved is gone from the control plane,
\* or another resource has its name, and no event that carries a certificate
\* for it is queued for q.
Lost(q) ==
    /\ pc[q] \in {"watch", "wait"}
    /\ csrs[NameOf(q)].uid # csr[q].uid
    /\ \A i \in 1..Len(ch[q].q) :
           ~(ch[q].q[i].uid = csr[q].uid /\ ch[q].q[i].cert # NoCert)

\* C16: callers of one identity are not coordinated. Once the resource a
\* caller created is deleted or replaced before a certificate for it reached
\* the caller, the caller never gets a qualifying event: it stays before or
\* in the wait loop, or Create returns the error of the watch (it could not
\* be opened, or its channel closed). The witness is the interleaving in
\* which the other caller's sendCSR did the delete.
C16_ReplacedWaiterFails ==
    [][\A q \in Callers :
         Lost(q) =>
             \/ Lost(q)'
             \/ /\ pc'[q] = "done"
                /\ ret'[q] \in {Err("watchClosed", NameOf(q)), Err("watch", "")}]_vars

\* Caller q opened its watch and ended with the channel-closed error; caller
\* p, of the same identity, deleted in sendCSR the resource q had created
\* and created its own.
C16_Witness ==
    \E p, q \in Callers :
        /\ p # q
        /\ id[p] = id[q]
        /\ pc[q] = "done"
        /\ ret[q] = Err("watchClosed", NameOf(q))
        /\ \E i \in 1..Len(calls[q]) : calls[q][i].op = "Watch" /\ calls[q][i].ok
        /\ ~HasCall(q, "CreateSecret")
        /\ \E i \in SendDeletes(p) :
               /\ calls[p][i].ok
               /\ calls[p][i].uid = csr[q].uid
        /\ \E i \in 1..Len(calls[p]) : calls[p][i].op = "CreateCSR" /\ calls[p][i].ok


\* The steps of Create before the wait loop.
BeforeWait == {"generate", "getCSR", "delete", "create", "approve", "watch"}

\* C18: a step before the wait loop whose call failed ends Create at once,
\* and a Create that ends at such a step returns an error, has made at most
\* the one call of that step, has not tried to write a secret, and leaves
\* the secrets as they were. A secret is written only for an event of the
\* resource Create made that carries a certificate and the approval.
C18_FailFastNoSecret ==
    [][\A p \in Callers :
         /\ (pc[p] \in BeforeWait /\ calls'[p] # calls[p] /\ ~LastCallNext(p).ok) =>
                pc'[p] = "done"
         /\ (pc[p] \in BeforeWait /\ pc'[p] = "done") =>
                /\ ~ret'[p].ok
                /\ ret'[p].at \in {"generate", "getCSR", "foreign", "deleteOld",
                                   "create", "approve", "watch"}
                /\ Len(calls'[p]) <= Len(calls[p]) + 1
                /\ ~HasCallNext(p, "CreateSecret")
                /\ secrets' = secrets
         /\ HasCallNext(p, "CreateSecret") =>
                /\ updatedCSR'[p].uid = csr'[p].uid
                /\ updatedCSR'[p].cert # NoCert
                /\ updatedCSR'[p].conds # <<>>
                /\ updatedCSR'[p].conds[1] = "Approved"
                /\ \E i \in 1..Len(calls'[p]) :
                       calls'[p][i].op = "Watch" /\ calls'[p][i].ok]_vars

\* The approval failed: Create returned its error and there is no secret.
C18_Witness ==
    \E p \in Callers :
        /\ pc[p] = "done"
        /\ ret[p].at = "approve"
        /\ ~ret[p].ok
        /\ calls[p][Len(calls[p])].op = "UpdateApproval"
        /\ ~calls[p][Len(calls[p])].ok
        /\ ~secrets[SecretKeyOf(p)].exists

\* A secret written by Create (it carries the labels SaveToSecret sets).
WrittenByCreate(k) == secrets[k].exists /\ secrets[k].labels.managedBy = ManagedBy

\* C19: whatever the interleaving, a secret written by Create holds a key
\* and the certificate the signing authority issued for that key; the
\* invocation that writes holds the event of the resource it created from
\* the key it generated.
C19_KeyMatchesCertificate ==
    /\ \A k \in SecretKeys :
           WrittenByCreate(k) =>
               /\ secrets[k].key # 0
               /\ secrets[k].cert = X509(ClusterSigner, secrets[k].key)
    /\ \A p \in Callers :
           (pc[p] \in {"save", "cleanup"} \/ HasCall(p, "CreateSecret")) =>
               /\ rawCSR[p] = key[p]
               /\ csr[p].uid = NewUID(rawCSR[p])
               /\ updatedCSR[p].uid = csr[p].uid
               /\ updatedCSR[p].cert = X509(ClusterSigner, key[p])

\* Two callers of one identity each created a CSR resource, and one of them
\* wrote the secret.
C19_Witness ==
    \E p, q \in Callers :
        /\ p # q
        /\ id[p] = id[q]
        /\ key[p] # key[q]
        /\ \E i \in 1..Len(calls[p]) : calls[p][i].op = "CreateCSR" /\ calls[p][i].ok
        /\ \E i \in 1..Len(calls[q]) : calls[q][i].op = "CreateCSR" /\ calls[q][i].ok
        /\ \E i \in 1..Len(calls[p]) : calls[p][i].op = "CreateSecret" /\ calls[p][i].ok
        /\ secrets[SecretKeyOf(p)].key = key[p]

\* C20: with one caller, when Create has returned success through Persist,
\* the secret instance-suffix exists with the signed certificate and the
\* generated key, and no CSR resource of the derived name is left.
C20_SuccessLeavesSecretOnly ==
    \A p \in Callers :
        (Solo /\ pc[p] = "done" /\ ret[p] = Ok("cleanup")) =>
            /\ SecretKeyOf(p)[2] = id[p].instance \o "-" \o id[p].suffix
            /\ secrets[SecretKeyOf(p)].exists
            /\ key[p] # 0
            /\ secrets[SecretKeyOf(p)].key = key[p]
            /\ secrets[SecretKeyOf(p)].cert = updatedCSR[p].cert
            /\ secrets[SecretKeyOf(p)].cert = X509(ClusterSigner, key[p])
            /\ csrs[NameOf(p)].uid = 0

C20_Witness ==
    /\ Solo
    /\ \E p \in Callers :
           /\ pc[p] = "done"
           /\ ret[p] = Ok("cleanup")
           /\ secrets[SecretKeyOf(p)].key = key[p]
           /\ csrs[NameOf(p)].uid = 0

====
